---- MODULE Spec2Model ----
(***************************************************************************)
(* A model of sphinxcontrib_autodocgen (AutoDocGen): the generate() driver, *)
(* the recursive visit_module() walk, the rst renderer and the output       *)
(* directory it maintains.                                                   *)
(*                                                                           *)
(* The host (Sphinx autodoc, pkgutil, the Python import system) is an input: *)
(* the module hierarchy, each module's docstring and the member list that    *)
(* documenter.filter_members yields for it are drawn in Init.                *)
(***************************************************************************)
EXTENDS Naturals, Sequences, FiniteSets, TLC

VARIABLES
  config,               \* self.config after the setdefault loop of generate()
  app,                  \* the part of self.app.config that visit_module reads
  docs,                 \* module name -> mod.__doc__
  members,              \* module name -> what documenter.filter_members yields for it
  dirExists,            \* whether the directory generated_source_dir exists
  files,                \* file name -> content of that file in generated_source_dir
  rst_files_generated,  \* self.rst_files_generated
  documented_items,     \* self.documented_items
  log,                  \* the 'Visiting module' log lines of the latest generate() call
  visits,               \* module name -> outcome of its latest visit_module call
  ops,                  \* file-system operations performed by the latest generate() call
  status,               \* outcome of the latest generate() call
  pre,                  \* the file system as it was when the latest generate() call began
  rerun,                \* the latest generate() call directly followed a completed one
  runs,                 \* number of generate() calls so far
  edits,                \* number of manual edits so far
  rstcall               \* the latest direct call of get_module_member_rst and its result

vars == <<config, app, docs, members, dirExists, files, rst_files_generated,
          documented_items, log, visits, ops, status, pre, rerun, runs, edits, rstcall>>

genvars == <<config, app, docs, members, dirExists, files, rst_files_generated,
             documented_items, log, visits, ops, status, pre, rerun, runs, edits>>

(***************************************************************************)
(* Bounds of the model.                                                      *)
(***************************************************************************)
MaxRuns == 2

MaxEdits == 1

MaxOptions == 2

(***************************************************************************)
(* Python values.                                                            *)
(***************************************************************************)
\* Python's None where a string is expected (a docstring, a file name, rst text).
NoneValue == "<None>"

PlainDoc == "Plain documentation."

PrivateDoc == "Internal. :meta private: not part of the API"

\* The values an autodoc option may take: bool, None, str, int.
PyBool(b) == [t |-> "bool", b |-> b, s |-> ""]

PyNone == [t |-> "none", b |-> FALSE, s |-> ""]

PyStr(s) == [t |-> "str", b |-> FALSE, s |-> s]

PyInt(s) == [t |-> "int", b |-> FALSE, s |-> s]

(***************************************************************************)
(* Module-level constants of the source.                                     *)
(***************************************************************************)
member_underline == "="

module_underline == "~"

doc_module_member_types == <<"module", "data", "class", "exception", "function">>

autosummary_member_types == {"module"}

MemberTypes == {doc_module_member_types[i] : i \in 1..Len(doc_module_member_types)}

(***************************************************************************)
(* The module hierarchy the host presents (an input).                        *)
(***************************************************************************)
Modules == {"pkg", "pkg._priv", "pkg._priv.deep", "pkg.sub"}

\* hasattr(mod, '__path__')
IsPackage(mod) == mod \in {"pkg", "pkg._priv"}

\* pkgutil.iter_modules(mod.__path__, prefix=modulename + '.'), in the order it yields
Submodules(mod) ==
  CASE mod = "pkg" -> <<"pkg._priv", "pkg.sub">>
    [] mod = "pkg._priv" -> <<"pkg._priv.deep">>
    [] OTHER -> <<>>

RECURSIVE Descendants(_)
Descendants(mod) ==
  LET subs == {Submodules(mod)[i] : i \in 1..Len(Submodules(mod))}
  IN subs \cup UNION {Descendants(c) : c \in subs}

\* A member as filter_members yields it: (mname, m, isattr), with what the code
\* reads of the object m: what kind of object it is ("function", "class",
\* "excclass": a class deriving from BaseException, "excinstance": an instance
\* of such a class, "module", "other"), its __module__ attribute
\* (NoneValue: it has none), its __doc__, and its entry in attr_docs
\* (NoneValue: it has none).
Member(mname, kind, isattr, defmodule, doc, attrdoc) ==
  [mname |-> mname, kind |-> kind, isattr |-> isattr, defmodule |-> defmodule,
   doc |-> doc, attrdoc |-> attrdoc]

\* Members in declaration order: defined here (f, K, E, VERSION, hid, err, num),
\* imported from another module (imp, Alias, os).
FullMembers(mod) ==
  << Member("f", "function", FALSE, mod, PlainDoc, NoneValue),
     Member("imp", "function", FALSE, "other.lib", PlainDoc, NoneValue),
     Member("K", "class", FALSE, mod, NoneValue, NoneValue),
     Member("E", "excclass", FALSE, mod, PlainDoc, NoneValue),
     Member("VERSION", "other", TRUE, NoneValue, PlainDoc, "The version."),
     Member("Alias", "class", TRUE, "other.lib", PlainDoc, "Alias of other.lib.Alias"),
     Member("hid", "function", FALSE, mod, PrivateDoc, NoneValue),
     Member("os", "module", FALSE, NoneValue, PlainDoc, NoneValue),
     Member("err", "excinstance", FALSE, mod, PlainDoc, NoneValue),
     Member("num", "other", FALSE, NoneValue, PlainDoc, NoneValue) >>

\* The member lists a module may have: none, or all of the above. The modules
\* under pkg._priv have the one function f.
MemberMenu(mod) == {<<>>, FullMembers(mod)}

(***************************************************************************)
(* Host string functions, on the strings of the model.                       *)
(***************************************************************************)
\* re.match(regex, modulename) for the default skip_module_regex '.+[.]_.*':
\* some component after the first starts with an underscore.
ReMatchName(regex, modulename) ==
  regex = ".+[.]_.*" /\ modulename \in {"pkg._priv", "pkg._priv.deep"}

\* re.search(regex, docstring) for the default skip_on_docstring_regex
ReSearchDoc(regex, docstring) ==
  regex = ":meta private:" /\ docstring = PrivateDoc

\* sphinx.util.rst.escape: a backslash before each punctuation character it lists
\* (the underscore is one, the dot is not)
RstEscape(s) ==
  CASE s = "pkg._priv" -> "pkg.\\_priv"
    [] s = "pkg._priv.deep" -> "pkg.\\_priv.deep"
    [] OTHER -> s

\* os.path.normpath
NormPath(p) ==
  CASE p = "./" -> "."
    [] p = "autodocgen/" -> "autodocgen"
    [] OTHER -> p

\* ch * n
RECURSIVE Repeat(_, _)
Repeat(ch, n) == IF n = 0 THEN "" ELSE ch \o Repeat(ch, n - 1)

\* sep.join(seq)
RECURSIVE Join(_, _)
Join(sep, seq) ==
  IF Len(seq) = 0 THEN ""
  ELSE IF Len(seq) = 1 THEN seq[1]
  ELSE seq[1] \o sep \o Join(sep, Tail(seq))

\* A qualified member name modulename + '.' + mname is kept as the pair of its
\* parts; QName is the string, LastPart is qualifiedName.split('.')[-1].
QName(q) == q[1] \o "." \o q[2]

LastPart(q) == q[2]

(***************************************************************************)
(* The renderer.                                                             *)
(***************************************************************************)
\* An options dict is the sequence of its (key, value) items in dict order.
\* What a decider returns: defaultOptions itself, None, or a dict of its own.
ReturnsDefaults == [kind |-> "defaults", opts |-> <<>>]

ReturnsNone == [kind |-> "none", opts |-> <<>>]

ReturnsDict(opts) == [kind |-> "dict", opts |-> opts]

\* config['autodoc_options_decider']: a callable (form "function") that returns
\* `value`, or a dict (form "dict") whose keys are `names`, each mapped to `value`.
\* The default is the lambda that returns defaultOptions.
DefaultDecider == [form |-> "function", names |-> {}, value |-> ReturnsDefaults]

\* The decider as called: generate() wraps a dict in a lambda that looks fullname up.
CallDecider(decider, fullname) ==
  IF decider.form = "dict"
  THEN IF fullname \in decider.names THEN decider.value ELSE ReturnsDefaults
  ELSE decider.value

\* defaults = {'members': bool(memberType in {'class', 'exception'})}
DefaultOptions(memberType) ==
  << <<"members", PyBool(memberType \in {"class", "exception"})>> >>

OptionLineNoneAsValue(k, v) ==
  IF v.t = "bool" /\ v.b = FALSE THEN [raised |-> FALSE, text |-> ""]
  ELSE IF v.t = "bool" THEN [raised |-> FALSE, text |-> "   :" \o k \o ":" \o "\n"]
  ELSE IF v.t = "none" THEN [raised |-> FALSE, text |-> "   :" \o k \o ":" \o " None" \o "\n"]
  ELSE IF v.t = "str" THEN [raised |-> FALSE, text |-> "   :" \o k \o ":" \o " " \o v.s \o "\n"]
  ELSE [raised |-> TRUE, text |-> ""]

\* One pass of the loop over autodocoptions.items(): what it appends to result,
\* or that ' ' + v raised TypeError (v is neither None, True, False nor a str).
OptionLine(k, v) ==
  IF v.t = "bool" /\ v.b = FALSE THEN [raised |-> FALSE, text |-> ""]
  ELSE IF v.t = "none" \/ (v.t = "bool" /\ v.b = TRUE)
  THEN [raised |-> FALSE, text |-> "   :" \o k \o ":" \o "\n"]
  ELSE IF v.t = "str"
  THEN [raised |-> FALSE, text |-> "   :" \o k \o ":" \o " " \o v.s \o "\n"]
  ELSE [raised |-> TRUE, text |-> ""]

RECURSIVE OptionLines(_)
OptionLines(opts) ==
  IF Len(opts) = 0 THEN [raised |-> FALSE, text |-> ""]
  ELSE LET first == OptionLine(opts[1][1], opts[1][2])
           rest == OptionLines(Tail(opts))
       IN IF first.raised \/ rest.raised THEN [raised |-> TRUE, text |-> ""]
          ELSE [raised |-> FALSE, text |-> first.text \o rest.text]

\* The template of get_module_member_rst, before the option lines.
MemberHeader(memberType, qualifiedName) ==
  LET name == LastPart(qualifiedName)
  IN "\n" \o RstEscape(name) \o "\n"
     \o Repeat(member_underline, Len(RstEscape(name))) \o "\n"
     \o "\n"
     \o ".. auto" \o memberType \o ":: " \o name \o "\n"

\* get_module_member_rst: the text, or raised (TypeError from the option loop).
get_module_member_rst(decider, memberType, qualifiedName) ==
  LET defaults == DefaultOptions(memberType)
      returned == CallDecider(decider, QName(qualifiedName))
      autodocoptions == IF returned.kind = "dict" THEN returned.opts ELSE defaults
      lines == OptionLines(autodocoptions)
  IN IF lines.raised THEN [raised |-> TRUE, text |-> ""]
     ELSE [raised |-> FALSE, text |-> MemberHeader(memberType, qualifiedName) \o lines.text]

\* The entries of a kind bucket are (name, object, docstring) triples; the name
\* of a submodule is a string, the name of a member a qualified pair.
Entry(name, obj, docstring) == [name |-> name, obj |-> obj, doc |-> docstring]

ItemOf(namestr, memberType) == namestr \o " (" \o memberType \o ")"

EntryName(memberType, e) == IF memberType = "module" THEN e.name ELSE QName(e.name)

\* generate_member_type_rst: the section text, and the names it adds to
\* self.documented_items. The walk runs with the default decider, whose options
\* are booleans, so no member block raises here.
generate_member_type_rst(decider, memberType, bucket) ==
  [items |-> {ItemOf(EntryName(memberType, bucket[i]), memberType) : i \in 1..Len(bucket)},
   text |->
     IF memberType \in autosummary_member_types
     THEN Join("\n", <<".. autosummary::", "  :toctree: ./", "">>
                     \o [i \in 1..Len(bucket) |-> "  " \o bucket[i].name])
     ELSE Join("\n", [i \in 1..Len(bucket) |->
                       get_module_member_rst(decider, memberType, bucket[i].name).text])]

\* The loop of generate_module_rst over membersByType.items(), from the i-th kind on.
RECURSIVE Sections(_, _, _)
Sections(decider, membersByType, i) ==
  IF i > Len(doc_module_member_types) THEN [items |-> {}, text |-> ""]
  ELSE LET memberType == doc_module_member_types[i]
           rest == Sections(decider, membersByType, i + 1)
       IN IF Len(membersByType[memberType]) = 0 THEN rest
          ELSE LET extra == generate_member_type_rst(decider, memberType,
                                                     membersByType[memberType])
               IN [items |-> extra.items \cup rest.items,
                   text |-> (IF extra.text # "" THEN "\n" \o extra.text ELSE "") \o rest.text]

\* config['module_title_decider']: the default lambda
module_title_decider(modulename) == modulename

\* generate_module_rst: the text (NoneValue for None), and the names it adds to
\* self.documented_items. membersByType is the dict keyed by kind; `not
\* membersByType` is true of a dict with no keys.
generate_module_rst(decider, module, membersByType) ==
  IF DOMAIN membersByType = {} THEN [rst |-> NoneValue, items |-> {}]
  ELSE LET title == module_title_decider(module)
           sections == Sections(decider, membersByType, 1)
       IN [rst |-> "\n" \o RstEscape(title) \o "\n"
                   \o Repeat(module_underline, Len(RstEscape(title))) \o "\n"
                   \o "\n"
                   \o ".. automodule:: " \o module \o "\n"
                   \o "\n"
                   \o ".. currentmodule:: " \o module \o "\n"
                   \o "\n"
                   \o sections.text,
           items |-> {ItemOf(module, "module")} \cup sections.items]

(***************************************************************************)
(* The output directory.                                                     *)
(***************************************************************************)
\* generated_source_dir + '/' + mod.__name__ + '.rst', as a name in that directory
RstFileOf(mod) == mod \o ".rst"

FileNames ==
  {RstFileOf(m) : m \in Modules} \cup {"old.rst", "documented_items.txt", "index.rst", "conf.py"}

\* What a file holds: text, or the listing of documented items (the sorted lines
\* of a set of names, kept as the set), or nothing when the file does not exist.
Absent == [kind |-> "absent", text |-> "", items |-> {}]

TextFile(text) == [kind |-> "text", text |-> text, items |-> {}]

ItemsFile(items) == [kind |-> "items", text |-> "", items |-> items]

\* os.listdir(generated_dir)
ListDir(fs) == {f \in FileNames : fs[f] # Absent}

WriteOp(f) == [op |-> "write", file |-> f]

RemoveOp(f) == [op |-> "remove", file |-> f]

MkdirOp == [op |-> "makedirs", file |-> ""]

(***************************************************************************)
(* The visitor.                                                              *)
(***************************************************************************)
SkippedByNameOnly(mod) ==
  config.skip_module_regex # "" /\ ReMatchName(config.skip_module_regex, mod)

\* The skip decision of visit_module: the name rule, then the docstring rule.
Skipped(mod) ==
  \/ config.skip_module_regex # "" /\ ReMatchName(config.skip_module_regex, mod)
  \/ /\ config.skip_on_docstring_regex # ""
     /\ docs[mod] # NoneValue
     /\ ReSearchDoc(config.skip_on_docstring_regex, docs[mod])

\* inspect.isclass(m), inspect.ismodule(m), inspect.isfunction(m),
\* isinstance(m, BaseException)
IsClass(m) == m.kind \in {"class", "excclass"}

IsModule(m) == m.kind = "module"

IsFunction(m) == m.kind = "function"

IsInstanceOfBaseException(m) == m.kind = "excinstance"

\* getattr(m, '__module__', modulename)
ModuleAttrOf(m, modulename) == IF m.defmodule = NoneValue THEN modulename ELSE m.defmodule

NotOwnedNoCheck(m, modulename) == FALSE

\* The ownership check: the member is ruled out as not defined in this module.
NotOwned(m, modulename) ==
  /\ ~m.isattr
  /\ ~app.imported_members
  /\ ModuleAttrOf(m, modulename) # modulename

\* The kind chain of visit_module: the kind bucket, or NoneValue when the loop
\* continues without one (an imported module, an unknown member type).
KindOf(m) ==
  IF m.isattr THEN "data"
  ELSE IF IsClass(m) THEN (IF IsInstanceOfBaseException(m) THEN "exception" ELSE "class")
  ELSE IF IsModule(m) THEN NoneValue
  ELSE IF IsFunction(m) THEN "function"
  ELSE NoneValue

\* The docstring the member is filed with: its attr_docs entry, else its __doc__.
DocstringOf(m) == IF m.attrdoc # NoneValue THEN m.attrdoc ELSE m.doc

SkippedByDocstring(m) ==
  /\ config.skip_on_docstring_regex # ""
  /\ DocstringOf(m) # NoneValue
  /\ ReSearchDoc(config.skip_on_docstring_regex, DocstringOf(m))

\* The kind bucket one member ends in, or NoneValue when it is not retained.
BucketOf(m, modulename) ==
  IF NotOwned(m, modulename) THEN NoneValue
  ELSE IF KindOf(m) = NoneValue THEN NoneValue
  ELSE IF SkippedByDocstring(m) THEN NoneValue
  ELSE KindOf(m)

\* The member loop of visit_module: the entries appended to bucket mtype.
MemberEntries(modulename, mtype) ==
  LET kept == SelectSeq(members[modulename], LAMBDA m : BucketOf(m, modulename) = mtype)
  IN [i \in 1..Len(kept) |-> Entry(<<modulename, kept[i].mname>>, kept[i], DocstringOf(kept[i]))]

NoBuckets == [t \in MemberTypes |-> <<>>]

Unvisited == [visited |-> FALSE, ret |-> "None", membersByType |-> NoBuckets]

StoreRstAlways(s, mod, rst) ==
  [s EXCEPT !.files[RstFileOf(mod)] = TextFile(rst),
            !.rst_files_generated = @ \cup {RstFileOf(mod)},
            !.ops = @ \cup {WriteOp(RstFileOf(mod))}]

StoreRstIgnoresPolicy(s, mod, rst) ==
  LET f == RstFileOf(mod)
      s1 == [s EXCEPT !.rst_files_generated = @ \cup {f}]
  IN IF s.files[f] # Absent /\ s.files[f] = TextFile(rst) THEN s1
     ELSE [s1 EXCEPT !.files[f] = TextFile(rst), !.ops = @ \cup {WriteOp(f)}]

\* The tail of visit_module: record the file as generated, then write it unless
\* it exists with the same text or must not be overwritten.
StoreRst(s, mod, rst) ==
  LET f == RstFileOf(mod)
      s1 == [s EXCEPT !.rst_files_generated = @ \cup {f}]
  IN IF s.files[f] # Absent /\ s.files[f] = TextFile(rst) THEN s1
     ELSE IF s.files[f] # Absent /\ ~config.overwrite_generated_source_rsts THEN s1
     ELSE [s1 EXCEPT !.files[f] = TextFile(rst), !.ops = @ \cup {WriteOp(f)}]

SubmoduleListedAlways(ret) == TRUE

\* `if not self.visit_module(submodule): continue`
SubmoduleListed(ret) == ret = "True"

RECURSIVE visit_module(_, _, _)
RECURSIVE VisitSubmodules(_, _, _, _)

\* The package branch of visit_module: visits the submodules from the i-th on,
\* and collects the entries of the 'module' bucket.
VisitSubmodules(s, mod, i, bucket) ==
  IF i > Len(Submodules(mod)) THEN [s |-> s, bucket |-> bucket]
  ELSE LET submodule == Submodules(mod)[i]
           r == visit_module(s, submodule, mod)
       IN VisitSubmodules(r.s, mod, i + 1,
            IF SubmoduleListed(r.ret)
            THEN Append(bucket, Entry(submodule, submodule, docs[submodule]))
            ELSE bucket)

\* visit_module(module), called from `via` (a package, or "generate" for a root).
\* s is the session: the files, the two session sets, the log, the visit
\* outcomes and the file operations. The result is the return value ("True",
\* "False", "None") and the session after the call.
visit_module(s, mod, via) ==
  LET skipped == Skipped(mod)
      s1 == [s EXCEPT !.log = Append(@, [mod |-> mod, via |-> via, skipped |-> skipped])]
  IN IF skipped
     THEN [ret |-> "False",
           s |-> [s1 EXCEPT !.visits[mod] =
                    [visited |-> TRUE, ret |-> "False", membersByType |-> NoBuckets]]]
     ELSE LET sub == IF IsPackage(mod) THEN VisitSubmodules(s1, mod, 1, <<>>)
                     ELSE [s |-> s1, bucket |-> <<>>]
              membersByType == [t \in MemberTypes |->
                                  IF t = "module" THEN sub.bucket ELSE MemberEntries(mod, t)]
              out == generate_module_rst(config.autodoc_options_decider, mod, membersByType)
              s2 == [sub.s EXCEPT !.documented_items = @ \cup out.items]
          IN IF out.rst = NoneValue \/ out.rst = ""
             THEN [ret |-> "None",
                   s |-> [s2 EXCEPT !.visits[mod] =
                            [visited |-> TRUE, ret |-> "None",
                             membersByType |-> membersByType]]]
             ELSE [ret |-> "True",
                   s |-> [StoreRst(s2, mod, out.rst) EXCEPT !.visits[mod] =
                            [visited |-> TRUE, ret |-> "True",
                             membersByType |-> membersByType]]]

(***************************************************************************)
(* The driver.                                                               *)
(***************************************************************************)
\* `for mod in modules: self.visit_module(mod)`, from the i-th root on
RECURSIVE VisitRoots(_, _)
VisitRoots(s, i) ==
  IF i > Len(config.modules) THEN s
  ELSE VisitRoots(visit_module(s, config.modules[i], "generate").s, i + 1)

\* The cleanup pass: removes every file of the directory that this run did not
\* generate.
Cleanup(s) ==
  LET extra == ListDir(s.files) \ s.rst_files_generated
  IN [s EXCEPT !.files = [f \in FileNames |-> IF f \in extra THEN Absent ELSE s.files[f]],
               !.ops = @ \cup {RemoveOp(f) : f \in extra}]

\* The diagnostic listing, written after the cleanup pass when configured.
WriteDocumentedItems(s) ==
  LET f == config.write_documented_items_output_file
  IN IF f = NoneValue THEN s
     ELSE [s EXCEPT !.files[f] = ItemsFile(s.documented_items),
                    !.ops = @ \cup {WriteOp(f)}]

FailsOnEmptyModulesOnly == Len(config.modules) = 0

\* The two assertions at the head of generate().
Fails ==
  \/ NormPath(config.generated_source_dir) = NormPath(".")
  \/ Len(config.modules) = 0

\* The session generate() starts the walk with.
Session ==
  [files |-> files, rst_files_generated |-> {}, documented_items |-> {},
   log |-> <<>>, visits |-> [m \in Modules |-> Unvisited],
   ops |-> IF dirExists THEN {} ELSE {MkdirOp}]

\* generate(): fails on an assertion before any effect, or creates the
\* directory, walks the roots, cleans up and writes the listing.
Generate ==
  /\ runs < MaxRuns
  /\ runs' = runs + 1
  /\ rerun' = (status = "done")
  /\ pre' = [dirExists |-> dirExists, files |-> files]
  /\ IF Fails
     THEN /\ status' = "failed"
          /\ log' = <<>>
          /\ ops' = {}
          /\ visits' = [m \in Modules |-> Unvisited]
          /\ UNCHANGED <<dirExists, files, rst_files_generated, documented_items>>
     ELSE LET s == WriteDocumentedItems(Cleanup(VisitRoots(Session, 1)))
          IN /\ status' = "done"
             /\ dirExists' = TRUE
             /\ files' = s.files
             /\ rst_files_generated' = s.rst_files_generated
             /\ documented_items' = s.documented_items
             /\ log' = s.log
             /\ visits' = s.visits
             /\ ops' = s.ops
  /\ UNCHANGED <<config, app, docs, members, edits, rstcall>>

EditedText == "Hand-written page.\n"

\* Between two runs the user replaces the text of a generated module page.
ManualEdit ==
  /\ status = "done"
  /\ edits < MaxEdits
  /\ \E m \in {"pkg", "pkg.sub"} :
       /\ files[RstFileOf(m)] # Absent
       /\ files' = [files EXCEPT ![RstFileOf(m)] = TextFile(EditedText)]
  /\ edits' = edits + 1
  /\ status' = "idle"
  /\ UNCHANGED <<config, app, docs, members, dirExists, rst_files_generated,
                 documented_items, log, visits, ops, pre, rerun, runs, rstcall>>

(***************************************************************************)
(* Configurations and initial states.                                        *)
(***************************************************************************)
RootChoices == {<<>>, <<"pkg">>, <<"pkg", "pkg._priv.deep">>}

Configs ==
  [modules : RootChoices,
   generated_source_dir : {"autodocgen/", "./"},
   overwrite_generated_source_rsts : BOOLEAN,
   skip_module_regex : {"", ".+[.]_.*"},
   skip_on_docstring_regex : {"", ":meta private:"},
   autodoc_options_decider : {DefaultDecider},
   write_documented_items_output_file : {NoneValue, "documented_items.txt"}]

\* One module at most carries the ':meta private:' docstring; pkg.sub has none.
DocChoices ==
  {[m \in Modules |-> IF m = p THEN PrivateDoc
                      ELSE IF m = "pkg.sub" THEN NoneValue ELSE PlainDoc] :
     p \in {"pkg", "pkg._priv", "pkg.sub", NoneValue}}

MemberChoices ==
  {[m \in Modules |-> IF m = "pkg" THEN a ELSE IF m = "pkg.sub" THEN b
                      ELSE SubSeq(FullMembers(m), 1, 1)] :
     a \in MemberMenu("pkg"), b \in MemberMenu("pkg.sub")}

StaleText == "Left over from an earlier build.\n"

NoFiles == [f \in FileNames |-> Absent]

\* What the directory may hold before the first run: the documentation root holds
\* the project's own files; the output directory is missing, or holds pages of
\* an earlier build.
PriorChoices(dir) ==
  IF NormPath(dir) = "."
  THEN {[dirExists |-> TRUE,
         files |-> [NoFiles EXCEPT !["index.rst"] = TextFile("Welcome\n"),
                                   !["conf.py"] = TextFile("extensions = []\n")]]}
  ELSE {[dirExists |-> FALSE, files |-> NoFiles],
        [dirExists |-> TRUE,
         files |-> [NoFiles EXCEPT !["old.rst"] = TextFile(StaleText),
                                   !["pkg._priv.rst"] = TextFile(StaleText),
                                   !["pkg.sub.rst"] = TextFile(EditedText),
                                   !["documented_items.txt"] = ItemsFile({})]]}

NoCall == [called |-> FALSE, decider |-> DefaultDecider, memberType |-> "module",
           qualifiedName |-> <<"", "">>, raised |-> FALSE, text |-> ""]

Init ==
  /\ config \in Configs
  /\ app \in [imported_members : BOOLEAN]
  /\ docs \in DocChoices
  /\ members \in MemberChoices
  /\ \E p \in PriorChoices(config.generated_source_dir) :
       /\ dirExists = p.dirExists
       /\ files = p.files
       /\ pre = p
  /\ rst_files_generated = {}
  /\ documented_items = {}
  /\ log = <<>>
  /\ visits = [m \in Modules |-> Unvisited]
  /\ ops = {}
  /\ status = "idle"
  /\ rerun = FALSE
  /\ runs = 0
  /\ edits = 0
  /\ rstcall = NoCall

Next == Generate \/ ManualEdit

Spec == Init /\ [][Next]_vars

(***************************************************************************)
(* get_module_member_rst called on its own, with any decider.                *)
(***************************************************************************)
OptionKeys == {"members", "undoc-members", "show-inheritance"}

OptionValues == {PyBool(TRUE), PyBool(FALSE), PyNone, PyStr("a, b"), PyInt("1")}

\* The dicts of at most MaxOptions items
OptionDicts ==
  {d \in UNION {[1..n -> OptionKeys \X OptionValues] : n \in 0..MaxOptions} :
     \A i, j \in DOMAIN d : i # j => d[i][1] # d[j][1]}

QualifiedNames == {<<"pkg", "K">>, <<"pkg.sub", "f">>}

Deciders ==
  {[form |-> "function", names |-> {}, value |-> v] :
     v \in {ReturnsDefaults, ReturnsNone} \cup {ReturnsDict(d) : d \in OptionDicts}}
  \cup
  {[form |-> "dict", names |-> {"pkg.K"}, value |-> v] :
     v \in {ReturnsNone} \cup {ReturnsDict(d) : d \in OptionDicts}}

\* One call, on inputs drawn from the sets above; the function keeps no state.
CallGetModuleMemberRst ==
  /\ ~rstcall.called
  /\ \E decider \in Deciders, memberType \in MemberTypes, q \in QualifiedNames :
       LET r == get_module_member_rst(decider, memberType, q)
       IN rstcall' = [called |-> TRUE, decider |-> decider, memberType |-> memberType,
                      qualifiedName |-> q, raised |-> r.raised, text |-> r.text]
  /\ UNCHANGED genvars

InitRst ==
  /\ config = [modules |-> <<"pkg">>,
               generated_source_dir |-> "autodocgen/",
               overwrite_generated_source_rsts |-> TRUE,
               skip_module_regex |-> ".+[.]_.*",
               skip_on_docstring_regex |-> ":meta private:",
               autodoc_options_decider |-> DefaultDecider,
               write_documented_items_output_file |-> NoneValue]
  /\ app = [imported_members |-> FALSE]
  /\ docs = [m \in Modules |-> PlainDoc]
  /\ members = [m \in Modules |-> FullMembers(m)]
  /\ dirExists = FALSE
  /\ files = NoFiles
  /\ pre = [dirExists |-> FALSE, files |-> NoFiles]
  /\ rst_files_generated = {}
  /\ documented_items = {}
  /\ log = <<>>
  /\ visits = [m \in Modules |-> Unvisited]
  /\ ops = {}
  /\ status = "idle"
  /\ rerun = FALSE
  /\ runs = 0
  /\ edits = 0
  /\ rstcall = NoCall

NextRst == CallGetModuleMemberRst

SpecRst == InitRst /\ [][NextRst]_vars

(***************************************************************************)
(* Properties.                                                               *)
(***************************************************************************)
Completed == status = "done"

\* The names listed in the 'module' bucket of a visited package
ListedSubmodules(p) ==
  {visits[p].membersByType["module"][i].name :
     i \in 1..Len(visits[p].membersByType["module"])}

\* The module was visited, not skipped, and all its kind buckets are empty.
VisitedEmpty(m) ==
  /\ visits[m].visited
  /\ visits[m].ret # "False"
  /\ \A t \in MemberTypes : Len(visits[m].membersByType[t]) = 0

VisitedNonEmpty(m) ==
  /\ visits[m].visited
  /\ visits[m].ret # "False"
  /\ \E t \in MemberTypes : Len(visits[m].membersByType[t]) > 0

InLog(m) == \E i \in 1..Len(log) : log[i].mod = m

\* C1: after generate() completes, the output directory holds '<module>.rst'
\* exactly for the visited, non-skipped modules with at least one retained
\* member, and no other module-named .rst file (none left from an earlier run).
C1_StaleFileInvariant ==
  Completed =>
    /\ \A m \in Modules : (files[RstFileOf(m)] # Absent) <=> VisitedNonEmpty(m)
    /\ files["old.rst"] = Absent

\* C2 as stated: a second generate() right after a completed one leaves every
\* file as it was and performs no file operation at all.
C2_IdempotenceNoWrites ==
  (Completed /\ rerun) => (files = pre.files /\ ops = {})

\* C2 as amended: a second generate() right after a completed one leaves every
\* file as it was and writes, removes or recreates no module .rst file; the
\* only file operations are the removal and rewriting of the documented-items
\* listing, exactly when that listing is configured.
C2_Idempotence ==
  (Completed /\ rerun) =>
    /\ files = pre.files
    /\ ops = IF config.write_documented_items_output_file = NoneValue THEN {}
             ELSE {RemoveOp(config.write_documented_items_output_file),
                   WriteOp(config.write_documented_items_output_file)}

C2_Witness ==
  /\ Completed
  /\ rerun
  /\ config.write_documented_items_output_file # NoneValue
  /\ files["pkg.rst"] # Absent
  /\ files["pkg.sub.rst"] # Absent
  /\ ops # {}

\* The skip rules, as the configuration states them
MatchesSkipRule(m) ==
  \/ config.skip_module_regex = ".+[.]_.*" /\ m \in {"pkg._priv", "pkg._priv.deep"}
  \/ config.skip_on_docstring_regex = ":meta private:" /\ docs[m] = PrivateDoc

Roots == {config.modules[i] : i \in 1..Len(config.modules)}

\* d lies under m, and neither d nor a module between m and d is a root
ReachableOnlyThrough(m, d) ==
  /\ d \in Descendants(m)
  /\ d \notin Roots
  /\ \A x \in Descendants(m) : d \in Descendants(x) => x \notin Roots

\* C3: a visit of a module that matches the name rule or the docstring rule
\* returns false before anything else: no module is visited through it, neither
\* it nor a descendant reachable only through it has an output file or an entry
\* in the generated-file set, and no package lists it in its submodule index.
C3_SkipIsFinal ==
  Completed =>
    \A m \in Modules :
      (MatchesSkipRule(m) /\ InLog(m)) =>
        /\ \A i \in 1..Len(log) : log[i].mod = m => log[i].skipped
        /\ \A i \in 1..Len(log) : log[i].via # m
        /\ visits[m].ret = "False"
        /\ RstFileOf(m) \notin rst_files_generated
        /\ files[RstFileOf(m)] = Absent
        /\ \A d \in Modules :
             ReachableOnlyThrough(m, d) =>
               /\ ~InLog(d)
               /\ RstFileOf(d) \notin rst_files_generated
               /\ files[RstFileOf(d)] = Absent
        /\ \A p \in Modules : m \notin ListedSubmodules(p)

C3_Witness ==
  /\ Completed
  /\ config.skip_module_regex = ""
  /\ docs["pkg._priv"] = PrivateDoc
  /\ InLog("pkg._priv")
  /\ pre.files["pkg._priv.rst"] # Absent
  /\ files["pkg.rst"] # Absent

\* C4: with overwrite_generated_source_rsts False, a module page that existed
\* when the run began keeps its content whatever was rendered, is recorded as
\* generated, survives the cleanup pass, and the visit returns true.
C4_PreserveExisting ==
  (Completed /\ ~config.overwrite_generated_source_rsts) =>
    \A m \in Modules :
      (visits[m].visited /\ visits[m].ret # "False" /\ pre.files[RstFileOf(m)] # Absent) =>
        /\ files[RstFileOf(m)] = pre.files[RstFileOf(m)]
        /\ RstFileOf(m) \in rst_files_generated
        /\ WriteOp(RstFileOf(m)) \notin ops
        /\ RemoveOp(RstFileOf(m)) \notin ops
        /\ visits[m].ret = "True"

C4_Witness ==
  /\ Completed
  /\ ~config.overwrite_generated_source_rsts
  /\ visits["pkg.sub"].visited
  /\ visits["pkg.sub"].ret = "True"
  /\ members["pkg.sub"] # <<>>
  /\ pre.files["pkg.sub.rst"] = TextFile(EditedText)
  /\ files["pkg.sub.rst"] = TextFile(EditedText)

\* The members of one module's buckets other than 'module', with their bucket
Retained(m) ==
  UNION {{<<t, visits[m].membersByType[t][i]>> : i \in 1..Len(visits[m].membersByType[t])} :
           t \in MemberTypes \ {"module"}}

\* C5: every retained member is in exactly one kind bucket, and a class that
\* derives from BaseException is in the 'exception' bucket, not in 'class'.
C5_KindClassification ==
  Completed =>
    \A m \in Modules : \A r \in Retained(m) :
      /\ \A r2 \in Retained(m) : r2[2].name = r[2].name => r2[1] = r[1]
      /\ (r[2].obj.kind = "excclass" /\ ~r[2].obj.isattr) => r[1] = "exception"

\* The member's __module__ names another module than the one it is found in.
DefinedElsewhere(obj, m) == obj.defmodule # NoneValue /\ obj.defmodule # m

\* C6 as stated: a member defined in another module is in no kind bucket of
\* the module that imports it, whatever its kind, data attributes included,
\* unless imported members are asked for.
C6_OwnershipAllKinds ==
  Completed =>
    \A m \in Modules : \A r \in Retained(m) :
      DefinedElsewhere(r[2].obj, m) => app.imported_members

\* C6 as amended: a member defined in another module is in no kind bucket of
\* the module that imports it and is not among the documented items, unless
\* the host reports it as a data attribute (it is then filed under 'data') or
\* the autodoc default option 'imported-members' is set.
C6_Ownership ==
  Completed =>
    \A m \in Modules :
      /\ \A r \in Retained(m) :
           DefinedElsewhere(r[2].obj, m) =>
             (app.imported_members \/ (r[2].obj.isattr /\ r[1] = "data"))
      /\ visits[m].visited =>
           \A i \in 1..Len(members[m]) :
             (DefinedElsewhere(members[m][i], m) /\ ~members[m][i].isattr
              /\ ~app.imported_members) =>
               \A t \in MemberTypes :
                 ItemOf(QName(<<m, members[m][i].mname>>), t) \notin documented_items

C6_Witness ==
  /\ Completed
  /\ ~app.imported_members
  /\ visits["pkg"].ret = "True"
  /\ \E i \in 1..Len(members["pkg"]) :
       /\ members["pkg"][i].mname = "imp"
       /\ DefinedElsewhere(members["pkg"][i], "pkg")
  /\ \A r \in Retained("pkg") : r[2].obj.mname # "imp"
  /\ \E r \in Retained("pkg") : r[2].obj.mname = "Alias" /\ r[1] = "data"

\* C7: a visited, non-skipped module whose kind buckets are all empty gets no
\* output: the visit returns a falsy value, writes no file, adds nothing to the
\* generated-file set or the documented items, and no package lists the module.
C7_NoOutputForEmpty ==
  Completed =>
    \A m \in Modules :
      VisitedEmpty(m) =>
        /\ visits[m].ret = "None"
        /\ RstFileOf(m) \notin rst_files_generated
        /\ WriteOp(RstFileOf(m)) \notin ops
        /\ ItemOf(m, "module") \notin documented_items
        /\ \A p \in Modules : m \notin ListedSubmodules(p)

\* The configuration has no root module, or its output directory is the
\* documentation root.
FatalConfiguration ==
  Len(config.modules) = 0 \/ config.generated_source_dir \in {".", "./"}

\* C8: with no root module or with the documentation root as output directory,
\* generate() fails and leaves the file system as it was: the directory is not
\* created, no file is written or removed, no module is visited.
C8_FatalConfigAborts ==
  (runs > 0 /\ FatalConfiguration) =>
    /\ status = "failed"
    /\ dirExists = pre.dirExists
    /\ files = pre.files
    /\ ops = {}
    /\ log = <<>>

C8_Witness ==
  /\ status = "failed"
  /\ config.generated_source_dir = "./"
  /\ Len(config.modules) > 0
  /\ files["index.rst"] # Absent

\* C10: after generate() completes, every submodule listed in the 'module'
\* bucket of a visited package has its own .rst file in the output directory.
C10_IndexConsistency ==
  Completed =>
    \A p \in Modules : \A m \in ListedSubmodules(p) : files[RstFileOf(m)] # Absent

C10_Witness ==
  /\ Completed
  /\ ListedSubmodules("pkg") = {"pkg.sub"}
  /\ visits["pkg._priv"].ret = "False"
  /\ files["pkg.sub.rst"] # Absent
  /\ files["pkg._priv.rst"] = Absent

\* What the decider of the latest call returns for the item, and the options used
C9Returned ==
  IF rstcall.decider.form = "dict" /\ QName(rstcall.qualifiedName) \notin rstcall.decider.names
  THEN ReturnsDefaults
  ELSE rstcall.decider.value

C9Defaults ==
  << <<"members",
       IF rstcall.memberType \in {"class", "exception"} THEN PyBool(TRUE) ELSE PyBool(FALSE)>> >>

C9Options == IF C9Returned.kind = "dict" THEN C9Returned.opts ELSE C9Defaults

\* The text after the header is the concatenation, in order, of one line per option
C9LineAsStated(k, v) ==
  IF v = PyBool(FALSE) THEN ""
  ELSE IF v = PyBool(TRUE) THEN "   :" \o k \o ":\n"
  ELSE "   :" \o k \o ": " \o (IF v = PyNone THEN "None" ELSE v.s) \o "\n"

C9LineAmended(k, v) ==
  IF v = PyBool(FALSE) THEN ""
  ELSE IF v = PyBool(TRUE) \/ v = PyNone THEN "   :" \o k \o ":\n"
  ELSE "   :" \o k \o ": " \o v.s \o "\n"

\* The text after the header is the concatenation, in order, of one line per option
RECURSIVE C9Concat(_, _)
C9Concat(opts, amended) ==
  IF Len(opts) = 0 THEN ""
  ELSE (IF amended THEN C9LineAmended(opts[1][1], opts[1][2])
        ELSE C9LineAsStated(opts[1][1], opts[1][2]))
       \o C9Concat(Tail(opts), amended)

\* C9 as stated: the defaults are {members: true} for class and exception and
\* {members: false} otherwise; the options used are the decider's (the defaults
\* when it returns None); a false option has no line, a true option a bare
\* ':k:' line, and any other value v a ':k: v' line.
C9_OptionRenderingAnyValue ==
  rstcall.called =>
    /\ ~rstcall.raised
    /\ rstcall.text = MemberHeader(rstcall.memberType, rstcall.qualifiedName)
                      \o C9Concat(C9Options, FALSE)

\* C9 as amended: the same defaults and the same choice of options; a false
\* option has no line, an option that is true or None a bare ':k:' line, a
\* string v a ':k: v' line, and the call raises (TypeError) exactly when an
\* option is neither a bool, None nor a string.
C9_OptionRendering ==
  rstcall.called =>
    IF \E i \in 1..Len(C9Options) : C9Options[i][2].t \notin {"bool", "none", "str"}
    THEN rstcall.raised
    ELSE /\ ~rstcall.raised
         /\ rstcall.text = MemberHeader(rstcall.memberType, rstcall.qualifiedName)
                           \o C9Concat(C9Options, TRUE)

C9_Witness ==
  /\ rstcall.called
  /\ ~rstcall.raised
  /\ rstcall.memberType = "function"
  /\ rstcall.decider.form = "dict"
  /\ QName(rstcall.qualifiedName) \in rstcall.decider.names
  /\ C9Options = << <<"members", PyNone>>, <<"undoc-members", PyStr("a, b")>> >>

====
